---- MODULE Spec2Model ----
(***************************************************************************)
(* Query engine of the finance dashboard (src/query_engine.py): a question *)
(* is sent to the completion service, the code between the first           *)
(* <code>...</code> pair of the response is extracted and run with exec    *)
(* against the process-wide DataFrame, and an answer envelope is returned. *)
(*                                                                         *)
(* Texts are sequences of pieces: the two delimiters, a whitespace         *)
(* character, a sentence of prose, and Python statements (each closed by   *)
(* ';' so that any concatenation of them is a valid Python line).          *)
(***************************************************************************)
EXTENDS Integers, Sequences, FiniteSets, TLC

\* ---------------------------------------------------------------- bounds
MaxLen == 4      \* pieces in a completion-service response
MaxChat == 3     \* entries a session adds to its chat history
MaxRows == 3     \* rows of a dataset handed to get_data_summary

\* ---------------------------------------------------------- text pieces
OPEN == "<code>"
CLOSE == "</code>"
WS == " "
PROSE == "This sums the revenue rows."
SET_STR == "result = 'X';"
SET_LEN == "result = len(df);"
DEL_RESULT == "del result;"
DROP_FIRST == "df.drop(df.index[:1], inplace=True);"
MISSING_COLUMN == "df['Missing'];"
RAISE_EMPTY == "raise Exception();"
RAISE_EXIT == "raise SystemExit;"
BIND_NAME == "total = len(df);"
BIND_BUILTIN == "import builtins; builtins.total = len(df);"

Statements ==
    {SET_STR, SET_LEN, DEL_RESULT, DROP_FIRST, MISSING_COLUMN, RAISE_EMPTY, RAISE_EXIT,
     BIND_NAME, BIND_BUILTIN}

Alphabet == {OPEN, CLOSE, WS, PROSE} \cup Statements

Texts == UNION {[1..n -> Alphabet] : n \in 0..MaxLen}

Questions == {"What was total revenue?", "Which department spent the most?"}

\* -------------------------------------------------------- Python values
\* A str is the sequence of its pieces; '' is the empty sequence.
None == [type |-> "NoneType", text |-> <<>>, num |-> 0]
PyStr(s) == [type |-> "str", text |-> s, num |-> 0]
PyInt(n) == [type |-> "int", text |-> <<>>, num |-> n]

\* Python truth value, as tested by `if not code` and `if match`.
Truthy(v) ==
    CASE v.type = "NoneType" -> FALSE
      [] v.type = "str" -> v.text # <<>>
      [] OTHER -> v.num # 0

\* str.strip(): leading and trailing whitespace removed.
RECURSIVE LStrip(_)
LStrip(s) == IF s # <<>> /\ Head(s) = WS THEN LStrip(Tail(s)) ELSE s

RECURSIVE RStrip(_)
RStrip(s) ==
    IF s # <<>> /\ s[Len(s)] = WS THEN RStrip(SubSeq(s, 1, Len(s) - 1)) ELSE s

Strip(s) == RStrip(LStrip(s))

Positions(s, piece) == {i \in 1..Len(s) : s[i] = piece}

Min(S) == CHOOSE x \in S : \A y \in S : x <= y
Max(S) == CHOOSE x \in S : \A y \in S : x >= y

\* ------------------------------------------------------------ exceptions
NoFault == [base |-> "none", name |-> "none", msg |-> <<>>]
Fault(base, name, msg) == [base |-> base, name |-> name, msg |-> msg]

SyntaxError == Fault("Exception", "SyntaxError", <<"invalid syntax (<string>, line 1)">>)
KeyError == Fault("Exception", "KeyError", <<"'Missing'">>)
NameError == Fault("Exception", "NameError", <<"name 'result' is not defined">>)
BareException == Fault("Exception", "Exception", <<>>)
SystemExit == Fault("BaseException", "SystemExit", <<>>)
ValueError == Fault("Exception", "ValueError", <<"NaTType does not support strftime">>)
APIError == Fault("Exception", "APIConnectionError", <<"Connection error.">>)
IndexError == Fault("Exception", "IndexError", <<"list index out of range">>)

\* `except Exception` catches the subclasses of Exception only.
CaughtByExceptException(f) == f.base = "Exception"

\* ---------------------------------------------------------------- dataset
Revenue == "Revenue"
Expense == "Expense"
Row(type, amount, department) ==
    [Type |-> type, Amount |-> amount, Department |-> department]

\* What load_data() may return: the rows of consolidated_master.csv, here
\* three transactions, or no row when the file holds its header alone.
ThreeRows ==
    << Row(Revenue, 100, "Sales"), Row(Expense, 40, "Marketing"),
       Row(Expense, 10, "Sales") >>
NoRows == << >>

load_data == {ThreeRows, NoRows}

\* The completion service behind `client`: it answers with a text, answers
\* with no content block, or raises.
Services ==
    {[kind |-> "text", text |-> t] : t \in Texts}
    \cup {[kind |-> "empty", text |-> <<>>], [kind |-> "raise", text |-> <<>>]}

VARIABLES
    client,      \* the completion service of this process (query_engine.py:17)
    loaded,      \* the dataset as load_data() returned it
    df,          \* the process-wide DataFrame (query_engine.py:28)
    question,    \* the question of the last call
    before,      \* the DataFrame as the last call found it
    steps,       \* the steps the last call performed, in order
    extraction,  \* what the last call extracted from the response
    execution,   \* what execute_code did in the last call
    outcome,     \* what the last call gave its caller
    request,     \* what the last call sent to the completion service
    builtins,    \* the names generated code has added to the builtins module
    file,        \* data/consolidated_master.csv as load_data finds it
    load,        \* what load_data did with it
    secrets,     \* st.secrets of the dashboard
    session_state, \* st.session_state of each browser session
    page,        \* what the last script run of each session rendered
    event,       \* what started the last script run
    summary      \* what the last direct call of get_data_summary gave

engineVars ==
    <<client, loaded, df, question, before, steps, extraction, execution, outcome,
      request, builtins>>

loadVars == <<file, load>>

gateVars == <<secrets, session_state, page, event>>

vars == <<engineVars, summary, loadVars, gateVars>>

\* ------------------------------------------------------- get_data_summary
RECURSIVE SumAmount(_, _)
SumAmount(d, type) ==
    IF d = <<>> THEN 0
    ELSE (IF Head(d).Type = type THEN Head(d).Amount ELSE 0) + SumAmount(Tail(d), type)

\* Series.unique(): the distinct values in order of first appearance.
RECURSIVE Unique(_)
Unique(s) ==
    IF s = <<>> THEN <<>>
    ELSE LET rest == Unique(SubSeq(s, 1, Len(s) - 1))
             last == s[Len(s)]
         IN IF \E i \in 1..Len(rest) : rest[i] = last THEN rest ELSE Append(rest, last)

\* The summary of a dataset; df['Date'].min() of no rows is NaT, whose
\* strftime raises ValueError.
get_data_summary(d) ==
    IF d = <<>>
    THEN [raised |-> ValueError, total_revenue |-> 0, total_expenses |-> 0,
          net_income |-> 0, count |-> 0, departments |-> <<>>]
    ELSE [raised |-> NoFault,
          total_revenue |-> SumAmount(d, Revenue),
          total_expenses |-> SumAmount(d, Expense),
          net_income |-> SumAmount(d, Revenue) - SumAmount(d, Expense),
          count |-> Len(d),
          departments |-> Unique([i \in 1..Len(d) |-> d[i].Department])]

\* ----------------------------------------------------------- extract_code
\* re.search(r'<code>(.*?)</code>', text, re.DOTALL): the leftmost <code>
\* that some </code> follows, up to the first </code> after it.
HasMatch(text) ==
    \E i \in Positions(text, OPEN) : \E j \in Positions(text, CLOSE) : i < j

MatchOpen(text) == Min(Positions(text, OPEN))
MatchClose(text) == Min({j \in Positions(text, CLOSE) : j > MatchOpen(text)})

\* extract_code with a greedy pattern, r'<code>(.*)</code>': up to the last
\* </code>.
extract_code_greedy(text) ==
    IF HasMatch(text)
    THEN PyStr(Strip(SubSeq(text, MatchOpen(text) + 1, Max(Positions(text, CLOSE)) - 1)))
    ELSE None

\* extract_code taking an unclosed <code> as code up to the end of the text.
extract_code_unclosed(text) ==
    IF HasMatch(text)
    THEN PyStr(Strip(SubSeq(text, MatchOpen(text) + 1, MatchClose(text) - 1)))
    ELSE IF Positions(text, OPEN) # {}
    THEN PyStr(Strip(SubSeq(text, MatchOpen(text) + 1, Len(text))))
    ELSE None

extract_code(text) ==
    IF HasMatch(text)
    THEN PyStr(Strip(SubSeq(text, MatchOpen(text) + 1, MatchClose(text) - 1)))
    ELSE None

\* response_text.split('</code>')[-1].strip() if '</code>' in response_text else ''
Explanation(text) ==
    IF Positions(text, CLOSE) # {}
    THEN PyStr(Strip(SubSeq(text, Max(Positions(text, CLOSE)) + 1, Len(text))))
    ELSE PyStr(<<>>)

\* ----------------------------------------------------------- execute_code
\* The namespace of one exec: `frame` is the DataFrame object the name df
\* refers to (the caller's object, not a copy), `bound` tells whether the
\* name result is in the namespace, `names` holds the other names the code
\* has bound, `fault` the exception that ended exec.
\* Bindings(ns): what the code finds in a namespace: whether result is
\* bound, to which value, and the other names it can read (a name is looked
\* up in the namespace, then in the builtins module).
Bindings(ns) ==
    [bound |-> ns.bound, result |-> ns.result, names |-> ns.names \cup ns.shared]

\* The dict of lines 64-68; every exec adds the one dict of the builtins
\* module to it as __builtins__, and `shared` is what that dict holds beyond
\* the built-in names.
Namespace(dataframe) ==
    [frame |-> dataframe, bound |-> TRUE, result |-> None, assigned |-> FALSE,
     names |-> {}, shared |-> builtins, fault |-> NoFault]

\* `assigned` records whether the value of result was put there by the code
\* (it is not a Python object: it tells the placeholder None from a result).
Assign(ns, v) == [ns EXCEPT !.bound = TRUE, !.result = v, !.assigned = TRUE]
Unset(ns) == [ns EXCEPT !.bound = FALSE, !.result = None, !.assigned = FALSE]

ExecStatement(ns, stmt) ==
    CASE stmt = SET_STR -> Assign(ns, PyStr(<<"X">>))
      [] stmt = SET_LEN -> Assign(ns, PyInt(Len(ns.frame)))
      [] stmt = DEL_RESULT ->
            IF ns.bound THEN Unset(ns) ELSE [ns EXCEPT !.fault = NameError]
      [] stmt = DROP_FIRST ->
            [ns EXCEPT !.frame = IF ns.frame = <<>> THEN <<>> ELSE Tail(ns.frame)]
      [] stmt = MISSING_COLUMN -> [ns EXCEPT !.fault = KeyError]
      [] stmt = RAISE_EMPTY -> [ns EXCEPT !.fault = BareException]
      [] stmt = RAISE_EXIT -> [ns EXCEPT !.fault = SystemExit]
      [] stmt = BIND_NAME -> [ns EXCEPT !.names = @ \cup {"total"}]
      [] stmt = BIND_BUILTIN -> [ns EXCEPT !.shared = @ \cup {"total"}]
      [] OTHER -> ns    \* whitespace

RECURSIVE ExecFrom(_, _)
ExecFrom(ns, code) ==
    IF code = <<>> \/ ns.fault # NoFault THEN ns
    ELSE ExecFrom(ExecStatement(ns, Head(code)), Tail(code))

\* exec compiles the whole string first: text that is no Python raises
\* SyntaxError before any statement runs.
Parses(code) == \A i \in 1..Len(code) : code[i] \in Statements \cup {WS}

exec(code, ns) ==
    IF Parses(code) THEN ExecFrom(ns, code) ELSE [ns EXCEPT !.fault = SyntaxError]

SENTINEL == "Code executed but no result was set."

\* namespace.get('result', 'Code executed but no result was set.')
NamespaceGetResult(ns) == IF ns.bound THEN ns.result ELSE PyStr(<<SENTINEL>>)

NoBindings == [bound |-> FALSE, result |-> None, names |-> {}]

NotRun ==
    [kind |-> "none", success |-> FALSE, result |-> None, error |-> None,
     raised |-> NoFault, fault |-> NoFault, assigned |-> FALSE, slot |-> None,
     start |-> NoBindings, end |-> NoBindings,
     frame |-> <<>>, builtins |-> {}]

\* kind "returned": the dict execute_code returns; kind "raised": the
\* exception that left execute_code. fault is the exception that ended exec,
\* slot the value of result in the namespace at the end, start and end the
\* bindings exec found and left, frame the DataFrame afterwards.
Executed(kind, success, result, error, ns0, ns) ==
    [kind |-> kind, success |-> success, result |-> result, error |-> error,
     raised |-> IF kind = "raised" THEN ns.fault ELSE NoFault,
     fault |-> ns.fault, assigned |-> ns.assigned, slot |-> ns.result,
     start |-> Bindings(ns0), end |-> Bindings(ns), frame |-> ns.frame,
     builtins |-> ns.shared]

\* execute_code reporting success although the code raised.
execute_code_always_success(code, dataframe) ==
    LET ns0 == Namespace(dataframe)
        ns == exec(code, ns0)
    IN  IF ns.fault = NoFault \/ CaughtByExceptException(ns.fault)
        THEN Executed("returned", TRUE, NamespaceGetResult(ns), None, ns0, ns)
        ELSE Executed("raised", FALSE, None, None, ns0, ns)

execute_code(code, dataframe) ==
    LET ns0 == Namespace(dataframe)
        ns == exec(code, ns0)
    IN  IF ns.fault = NoFault
        THEN Executed("returned", TRUE, NamespaceGetResult(ns), None, ns0, ns)
        ELSE IF CaughtByExceptException(ns.fault)
        THEN Executed("returned", FALSE, None, PyStr(ns.fault.msg), ns0, ns)
        ELSE Executed("raised", FALSE, None, None, ns0, ns)

\* ------------------------------------------------- ask_financial_question
NO_CODE_ANSWER == "I couldn't generate code to answer that question."
NO_CODE_ERROR == "No code block found in response"
ERROR_PREFIX == "I wrote code but it had an error: "

Envelope(answer, code, explanation, success, error) ==
    [answer |-> answer, code |-> code, explanation |-> explanation,
     success |-> success, error |-> error]

NoEnvelope == Envelope(None, None, None, FALSE, None)

\* The no-code envelope with the explanation left empty.
NoCodeEnvelope_empty_explanation(response_text) ==
    Envelope(PyStr(<<NO_CODE_ANSWER>>), None, PyStr(<<>>), FALSE,
             PyStr(<<NO_CODE_ERROR>>))

NoCodeEnvelope(response_text) ==
    Envelope(PyStr(<<NO_CODE_ANSWER>>), None, PyStr(response_text), FALSE,
             PyStr(<<NO_CODE_ERROR>>))

SuccessEnvelope(code, explanation, execution_result) ==
    Envelope(execution_result.result, code, explanation, TRUE, None)

\* The failure envelope with an answer that leaves the error out.
FailureEnvelope_generic_answer(code, explanation, execution_result) ==
    Envelope(PyStr(<<ERROR_PREFIX>>), code, explanation, FALSE,
             execution_result.error)

FailureEnvelope(code, explanation, execution_result) ==
    Envelope(PyStr(<<ERROR_PREFIX>> \o execution_result.error.text), code,
             explanation, FALSE, execution_result.error)

NoOutcome == [kind |-> "none", envelope |-> NoEnvelope, raised |-> NoFault]
Returned(env) == [kind |-> "returned", envelope |-> env, raised |-> NoFault]
Raised(f) == [kind |-> "raised", envelope |-> NoEnvelope, raised |-> f]

\* What a call extracted: nothing yet, the code alone (line 119), or the
\* code and the explanation (line 131).
NotExtracted == [kind |-> "none", code |-> None, explanation |-> None]
ExtractedCode(code) == [kind |-> "code", code |-> code, explanation |-> None]
ExtractedBoth(code, explanation) ==
    [kind |-> "both", code |-> code, explanation |-> explanation]

StepsToSummary == <<"get_data_summary">>
StepsToService == <<"get_data_summary", "messages.create">>
StepsToExtract == <<"get_data_summary", "messages.create", "extract_code">>
StepsToExecute ==
    <<"get_data_summary", "messages.create", "extract_code", "execute_code">>

\* messages.create(model=..., max_tokens=1024, system=SYSTEM_PROMPT,
\* messages=[user: full_prompt]): full_prompt holds the summary, then the
\* question.
SYSTEM_PROMPT == "You are a financial analyst assistant helping users query a company's financial data."

NoRequest == [sent |-> FALSE, system |-> "", summary |-> get_data_summary(<<>>),
              question |-> ""]

\* The request with the question left out of the prompt.
Request_without_question(data_context, q) ==
    [sent |-> TRUE, system |-> SYSTEM_PROMPT, summary |-> data_context,
     question |-> ""]

Request(data_context, q) ==
    [sent |-> TRUE, system |-> SYSTEM_PROMPT, summary |-> data_context,
     question |-> q]

\* One call, given the dataset and the behaviour of the service: what the
\* caller gets, what was extracted, what execute_code did, the steps taken,
\* the DataFrame object afterwards and the request sent.
Call(out, xt, ex, st, frame, rq) ==
    [outcome |-> out, extraction |-> xt, execution |-> ex, steps |-> st,
     frame |-> frame, request |-> rq]

ask_financial_question(q, d, service) ==
    LET data_context == get_data_summary(d)
        rq == Request(data_context, q)
        response_text == service.text
        code == extract_code(response_text)
        explanation == Explanation(response_text)
        execution_result == execute_code(code.text, d)
    IN  IF data_context.raised # NoFault
        THEN Call(Raised(data_context.raised), NotExtracted, NotRun, StepsToSummary, d,
                  NoRequest)
        ELSE IF service.kind = "raise"
        THEN Call(Raised(APIError), NotExtracted, NotRun, StepsToService, d, rq)
        ELSE IF service.kind = "empty"
        THEN Call(Raised(IndexError), NotExtracted, NotRun, StepsToService, d, rq)
        ELSE IF ~Truthy(code)
        THEN Call(Returned(NoCodeEnvelope(response_text)), ExtractedCode(code),
                  NotRun, StepsToExtract, d, rq)
        ELSE IF execution_result.kind = "raised"
        THEN Call(Raised(execution_result.raised), ExtractedBoth(code, explanation),
                  execution_result, StepsToExecute, execution_result.frame, rq)
        ELSE IF execution_result.success
        THEN Call(Returned(SuccessEnvelope(code, explanation, execution_result)),
                  ExtractedBoth(code, explanation), execution_result,
                  StepsToExecute, execution_result.frame, rq)
        ELSE Call(Returned(FailureEnvelope(code, explanation, execution_result)),
                  ExtractedBoth(code, explanation), execution_result,
                  StepsToExecute, execution_result.frame, rq)

\* -------------------------------------------------------------- load_data
Required == {"Date", "Department", "Category", "Amount", "Type", "Description"}

\* A CSV file: whether it exists, the columns of its header, and the
\* columns whose cells are not of the column's kind (a Date that is no
\* date, an Amount that is no number; any text is a valid cell elsewhere).
NoFile == [exists |-> FALSE, columns |-> {}, unparseable |-> {}]
ShippedFile == [exists |-> TRUE, columns |-> Required, unparseable |-> {}]
Files ==
    {NoFile} \cup
    {f \in [exists : {TRUE}, columns : SUBSET Required,
             unparseable : SUBSET {"Date", "Amount"}] :
        f.unparseable \subseteq f.columns}

FileNotFoundError ==
    Fault("Exception", "FileNotFoundError", <<"No such file or directory">>)
DateKeyError == Fault("Exception", "KeyError", <<"'Date'">>)
DateParseError == Fault("Exception", "DateParseError", <<"Unknown datetime string format">>)

NotLoaded == [kind |-> "none", columns |-> {}, unparseable |-> {}, fault |-> NoFault]
LoadReturned(columns, unparseable) ==
    [kind |-> "returned", columns |-> columns, unparseable |-> unparseable,
     fault |-> NoFault]
LoadRaised(f) == [kind |-> "raised", columns |-> {}, unparseable |-> {}, fault |-> f]

\* load_data(): read_csv raises when there is no file and takes any header
\* and any cell as it finds them; df['Date'] raises without that column and
\* to_datetime raises on a cell that is no date. Nothing else is looked at.
LoadData(f) ==
    IF ~f.exists THEN LoadRaised(FileNotFoundError)
    ELSE IF "Date" \notin f.columns THEN LoadRaised(DateKeyError)
    ELSE IF "Date" \in f.unparseable THEN LoadRaised(DateParseError)
    ELSE LoadReturned(f.columns, f.unparseable)

\* The process has imported query_engine with the file it ships with.
Imported ==
    /\ file = ShippedFile
    /\ load = LoadData(ShippedFile)

\* ---------------------------------------------------------- the password gate
Sessions == {"s1", "s2"}
Passwords == {"", "hunter2", "guess"}

\* Python dicts as functions from their keys.
EmptyDict == [k \in {} |-> k]
DictSet(d, k, v) == [x \in DOMAIN d \cup {k} |-> IF x = k THEN v ELSE d[x]]
DictDel(d, k) == [x \in DOMAIN d \ {k} |-> d[x]]

SecretNotFound == Fault("Exception", "KeyError", <<"'password'">>)

\* The callback that keeps the entry in session state when it accepts it.
password_entered_keeps_password(ss, sec) ==
    IF "password" \notin DOMAIN sec THEN [state |-> ss, raised |-> SecretNotFound]
    ELSE IF ss["password"] = sec["password"]
    THEN [state |-> DictSet(ss, "password_correct", TRUE), raised |-> NoFault]
    ELSE [state |-> DictSet(ss, "password_correct", FALSE), raised |-> NoFault]

\* password_entered(), the on_change callback of the input (lines 12-18).
password_entered(ss, sec) ==
    IF "password" \notin DOMAIN sec THEN [state |-> ss, raised |-> SecretNotFound]
    ELSE IF ss["password"] = sec["password"]
    THEN [state |-> DictDel(DictSet(ss, "password_correct", TRUE), "password"),
          raised |-> NoFault]
    ELSE [state |-> DictSet(ss, "password_correct", FALSE), raised |-> NoFault]

\* st.text_input(..., key="password"): the widget puts its value, the empty
\* string at first, under its key. (Streamlit drops the key of a widget that
\* a later run does not render; the model leaves it where the code left it.)
text_input(ss) == IF "password" \in DOMAIN ss THEN ss ELSE DictSet(ss, "password", "")

\* The gate that lets every session through that has made an entry.
check_password_any_entry(ss) ==
    IF "password_correct" \notin DOMAIN ss
    THEN [value |-> FALSE, state |-> text_input(ss), input |-> TRUE, error |-> FALSE]
    ELSE [value |-> TRUE, state |-> ss, input |-> FALSE, error |-> FALSE]

\* check_password() (lines 20-46): its value, the session state it leaves,
\* and whether it rendered the input and the error message.
check_password(ss) ==
    IF "password_correct" \notin DOMAIN ss
    THEN [value |-> FALSE, state |-> text_input(ss), input |-> TRUE, error |-> FALSE]
    ELSE IF ~ss["password_correct"]
    THEN [value |-> FALSE, state |-> text_input(ss), input |-> TRUE, error |-> TRUE]
    ELSE [value |-> TRUE, state |-> ss, input |-> FALSE, error |-> FALSE]

\* What a run put on the page: the password input, the error under it,
\* whether main() was entered and whether the run ended in an exception;
\* from main(), the question it found in its input, whether it asked it,
\* and the Previous Questions expander with its list.
NoPage ==
    [input |-> FALSE, error |-> FALSE, main |-> FALSE, exception |-> FALSE,
     question |-> "", asked |-> FALSE, expander |-> FALSE, previous |-> <<>>]
ExceptionPage == [NoPage EXCEPT !.exception = TRUE]

\* One run of dashboard_ai.py: the chat history is initialised (lines
\* 68-69), then main() runs if check_password() says so (lines 479-481).
Script(ss) ==
    LET started == IF "chat_history" \in DOMAIN ss THEN ss
                   ELSE DictSet(ss, "chat_history", <<>>)
        gate == check_password(started)
    IN  [state |-> gate.state,
         page |-> [NoPage EXCEPT !.input = gate.input, !.error = gate.error,
                                 !.main = gate.value]]

\* "\n" in result["answer"] (line 414) with an answer that is no container.
TypeError(v) ==
    Fault("Exception", "TypeError", <<"argument of type '", v.type, "' is not iterable">>)

RECURSIVE Reversed(_)
Reversed(h) == IF h = <<>> THEN <<>> ELSE Append(Reversed(Tail(h)), Head(h))

NoCall == Call(NoOutcome, NotExtracted, NotRun, <<>>, <<>>, NoRequest)

\* st.text_input(..., key="question_input") (lines 396-401): the widget
\* puts its value, the empty string at first, under its key.
question_input(ss) ==
    IF "question_input" \in DOMAIN ss THEN ss ELSE DictSet(ss, "question_input", "")

\* The question section of main() (lines 403-444) on session state ss,
\* where call is what ask_financial_question did at line 405 (NoCall when
\* the input is empty): the session state it leaves, the question in the
\* input, the exception that ended it, and the Previous Questions expander.
main(ss, call) ==
    LET user_question == ss["question_input"]
        asked == user_question # ""
        result == call.outcome.envelope
        raised ==
            IF ~asked THEN NoFault
            ELSE IF call.outcome.kind = "raised" THEN call.outcome.raised
            ELSE IF result.success /\ result.answer.type # "str"
            THEN TypeError(result.answer)
            ELSE NoFault
        history ==
            IF asked /\ raised = NoFault
            THEN Append(ss["chat_history"],
                        [question |-> user_question, answer |-> result.answer,
                         code |-> result.code, success |-> result.success])
            ELSE ss["chat_history"]
        expander == raised = NoFault /\ Len(history) > 1
    IN  [state |-> DictSet(ss, "chat_history", history),
         question |-> user_question, asked |-> asked,
         raised |-> raised, expander |-> expander,
         previous |-> IF expander
                      THEN Reversed(SubSeq(history, 1, Len(history) - 1))
                      ELSE <<>>]

NoEvent == [kind |-> "none", session |-> "", value |-> ""]
QuestionEvent(s, q) == [kind |-> "question", session |-> s, value |-> q]
RunEvent(s) == [kind |-> "run", session |-> s, value |-> ""]
EntryEvent(s, p) == [kind |-> "entry", session |-> s, value |-> p]

\* Nobody has opened the dashboard.
NoVisitor ==
    /\ session_state = [s \in Sessions |-> EmptyDict]
    /\ page = [s \in Sessions |-> NoPage]
    /\ event = NoEvent

\* ------------------------------------------------------------ the process
\* After import: the client is constructed and the dataset loaded (lines
\* 17 and 28); no question has been asked.
NotSummarized == [done |-> FALSE, value |-> get_data_summary(<<>>)]
Summarized(v) == [done |-> TRUE, value |-> v]

NotAsked ==
    /\ question = ""
    /\ before = loaded
    /\ steps = <<>>
    /\ extraction = NotExtracted
    /\ execution = NotRun
    /\ outcome = NoOutcome
    /\ request = NoRequest
    /\ builtins = {}

Init ==
    /\ client \in Services
    /\ loaded \in load_data
    /\ df = loaded
    /\ NotAsked
    /\ summary = NotSummarized
    /\ Imported
    /\ secrets = [password |-> "hunter2"]
    /\ NoVisitor

\* A caller asks a question.
Ask(q) ==
    /\ \E r \in {ask_financial_question(q, df, client)} :
           /\ df' = r.frame
           /\ steps' = r.steps
           /\ extraction' = r.extraction
           /\ execution' = r.execution
           /\ outcome' = r.outcome
           /\ request' = r.request
           /\ builtins' = IF r.execution.kind = "none" THEN builtins
                          ELSE r.execution.builtins
    /\ before' = df
    /\ question' = q
    /\ UNCHANGED <<client, loaded, summary, loadVars, gateVars>>

Next == \E q \in Questions : Ask(q)

Spec == Init /\ [][Next]_vars

\* --------------------------------------------- get_data_summary on its own
\* The transactions a dataset may hold.
Amounts == {100, 40, 10}
Departments == {"Sales", "Marketing"}
Rows == {Row(t, a, d) : t \in {Revenue, Expense}, a \in Amounts, d \in Departments}
DatasetsOfRows == UNION {[1..n -> Rows] : n \in 0..MaxRows}

\* A process whose dataset is any of these, and whose callers (the test
\* block at line 159, the dashboard) only ask for the summary.
InitSummary ==
    /\ client = [kind |-> "raise", text |-> <<>>]
    /\ loaded \in DatasetsOfRows
    /\ df = loaded
    /\ NotAsked
    /\ summary = NotSummarized
    /\ Imported
    /\ secrets = [password |-> "hunter2"]
    /\ NoVisitor

Summarize ==
    /\ summary' = Summarized(get_data_summary(df))
    /\ UNCHANGED <<engineVars, loadVars, gateVars>>

NextSummary == Summarize

SpecSummary == InitSummary /\ [][NextSummary]_vars

\* ------------------------------------------------------ load_data on its own
\* The import of query_engine with any file in place of the shipped one.
InitLoad ==
    /\ client = [kind |-> "raise", text |-> <<>>]
    /\ loaded = NoRows
    /\ df = loaded
    /\ NotAsked
    /\ summary = NotSummarized
    /\ file \in Files
    /\ load = NotLoaded
    /\ secrets = [password |-> "hunter2"]
    /\ NoVisitor

Load ==
    /\ load' = LoadData(file)
    /\ UNCHANGED <<engineVars, summary, file, gateVars>>

NextLoad == Load

SpecLoad == InitLoad /\ [][NextLoad]_vars

\* ------------------------------------------------- the gate of dashboard_ai
\* The dashboard is served with any secret, or none, to its sessions.
InitGate ==
    /\ client = [kind |-> "raise", text |-> <<>>]
    /\ loaded = ThreeRows
    /\ df = loaded
    /\ NotAsked
    /\ summary = NotSummarized
    /\ Imported
    /\ secrets \in {EmptyDict} \cup {[password |-> p] : p \in Passwords}
    /\ NoVisitor

\* What a call of ask_financial_question leaves in the engine.
Asked(q, r) ==
    /\ df' = r.frame
    /\ steps' = r.steps
    /\ extraction' = r.extraction
    /\ execution' = r.execution
    /\ outcome' = r.outcome
    /\ request' = r.request
    /\ builtins' = IF r.execution.kind = "none" THEN builtins
                   ELSE r.execution.builtins
    /\ before' = df
    /\ question' = q
    /\ UNCHANGED <<client, loaded>>

\* One run of the script for session s from session state ss: the gate,
\* and main() behind it. A session asks at most MaxChat questions.
Render(s, ss) ==
    \E r \in {Script(ss)} :
        IF ~r.page.main
        THEN /\ session_state' = [session_state EXCEPT ![s] = r.state]
             /\ page' = [page EXCEPT ![s] = r.page]
             /\ UNCHANGED engineVars
        ELSE \E reg \in {question_input(r.state)} :
             \E call \in {IF reg["question_input"] # ""
                          THEN ask_financial_question(reg["question_input"], df, client)
                          ELSE NoCall} :
             \E m \in {main(reg, call)} :
                 /\ m.asked => Len(reg["chat_history"]) < MaxChat
                 /\ session_state' = [session_state EXCEPT ![s] = m.state]
                 /\ page' = [page EXCEPT ![s] =
                                [r.page EXCEPT !.exception = m.raised # NoFault,
                                               !.question = m.question,
                                               !.asked = m.asked,
                                               !.expander = m.expander,
                                               !.previous = m.previous]]
                 /\ IF m.asked THEN Asked(m.question, call) ELSE UNCHANGED engineVars

\* A session opens the page or reruns the script with the input untouched.
Run(s) ==
    /\ Render(s, session_state[s])
    /\ event' = RunEvent(s)
    /\ UNCHANGED <<summary, loadVars, secrets>>

\* The visitor of a session submits p in the input of the page: the widget
\* stores it under its key, on_change runs the callback as the value has
\* changed, and the script runs again unless the callback raised.
Enter(s, p) ==
    /\ page[s].input
    /\ p # session_state[s]["password"]
    /\ \E cb \in {password_entered(DictSet(session_state[s], "password", p), secrets)} :
           IF cb.raised # NoFault
           THEN /\ session_state' = [session_state EXCEPT ![s] = cb.state]
                /\ page' = [page EXCEPT ![s] = ExceptionPage]
                /\ UNCHANGED engineVars
           ELSE Render(s, cb.state)
    /\ event' = EntryEvent(s, p)
    /\ UNCHANGED <<summary, loadVars, secrets>>

NextGate == \E s \in Sessions : Run(s) \/ \E p \in Passwords : Enter(s, p)

SpecGate == InitGate /\ [][NextGate]_vars

\* --------------------------------------------- the questions of dashboard_ai
\* Completion services for the dashboard's questions: code that gives a
\* string, a number, no result or an error, no code at all, code that
\* empties the dataset, and a service that is down.
ChatServices ==
    {[kind |-> "text", text |-> t] :
        t \in {<<OPEN, SET_STR, CLOSE, PROSE>>, <<OPEN, SET_LEN, CLOSE>>,
               <<OPEN, BIND_NAME, CLOSE>>, <<OPEN, MISSING_COLUMN, CLOSE>>,
               <<PROSE>>, <<OPEN, DROP_FIRST, SET_STR, CLOSE>>}}
    \cup {[kind |-> "raise", text |-> <<>>]}

InitChat ==
    /\ client \in ChatServices
    /\ loaded = ThreeRows
    /\ df = loaded
    /\ NotAsked
    /\ summary = NotSummarized
    /\ Imported
    /\ secrets = [password |-> "hunter2"]
    /\ NoVisitor

\* The visitor of a session behind the gate submits q in the question
\* input (or clears it): the widget stores it and the script runs again.
Submit(s, q) ==
    /\ page[s].main
    /\ q # session_state[s]["question_input"]
    /\ Render(s, DictSet(session_state[s], "question_input", q))
    /\ event' = QuestionEvent(s, q)
    /\ UNCHANGED <<summary, loadVars, secrets>>

NextChat ==
    \E s \in Sessions :
        \/ Run(s)
        \/ \E p \in Passwords : Enter(s, p)
        \/ \E q \in Questions \cup {""} : Submit(s, q)

SpecChat == InitChat /\ [][NextChat]_vars

\* ================================================================= claims
env == outcome.envelope

\* The last call reached the service and read a text from it.
Extracted == extraction.kind # "none"

\* exec was entered in the last call, and whether it ran to its end.
Executor_Invoked == execution.kind # "none"
RanToCompletion == Executor_Invoked /\ execution.fault = NoFault

\* The ways to read a text as prefix + <code> + code + </code> + suffix.
Decompositions(t) ==
    {ij \in (1..Len(t)) \X (1..Len(t)) :
        t[ij[1]] = OPEN /\ t[ij[2]] = CLOSE /\ ij[1] < ij[2]}
PrefixOf(t, ij) == SubSeq(t, 1, ij[1] - 1)
CodeOf(t, ij) == SubSeq(t, ij[1] + 1, ij[2] - 1)
SuffixOf(t, ij) == SubSeq(t, ij[2] + 1, Len(t))
Contains(s, piece) == \E i \in 1..Len(s) : s[i] = piece
NoDelimiterPair(t) == Decompositions(t) = {}

\* ---------------------------------------------------------------- C1
\* C1 as stated: in every returned envelope, success is true iff error is
\* absent, the code ran to completion and the code set a result value.
C1_SuccessIffBoundResult ==
    outcome.kind = "returned" =>
        (env.success <=> (env.error = None /\ RanToCompletion /\ execution.assigned))

\* C1 amended: in every returned envelope, success is true iff error is
\* absent and the extracted code ran to completion without raising, whether
\* or not the code set a result value.
C1_SuccessIffRanToCompletion ==
    outcome.kind = "returned" =>
        /\ env.success <=> (env.error = None /\ RanToCompletion)
        /\ env.success <=> RanToCompletion
        /\ env.success <=> env.error = None

\* A success envelope for code that never set result.
C1_Witness ==
    outcome.kind = "returned" /\ env.success /\ RanToCompletion /\ ~execution.assigned

\* ---------------------------------------------------------------- C2
\* C2: whenever the code raises, execute_code returns success = false with
\* no value instead of letting the fault reach its caller.
C2_FaultsNeverPropagate ==
    (Executor_Invoked /\ execution.fault # NoFault) =>
        (execution.kind = "returned" /\ ~execution.success /\ execution.result = None)

\* ---------------------------------------------------------------- C3
\* C3: no call of ask_financial_question ends by raising to its caller.
C3_NeverRaises == outcome.kind # "raised"

\* ---------------------------------------------------------------- C4
\* C4: after any sequence of calls the process-wide dataset equals the
\* dataset as loaded.
C4_DatasetNeverMutated == df = loaded

\* ---------------------------------------------------------------- C5
\* str(v) of the values the result slot may hold.
Decimal == <<"1", "2", "3", "4", "5", "6", "7", "8", "9">>
StrOf(v) ==
    CASE v.type = "str" -> v
      [] v.type = "NoneType" -> PyStr(<<"None">>)
      [] OTHER -> PyStr(<<IF v.num = 0 THEN "0" ELSE Decimal[v.num]>>)

\* C5: the answer of every returned envelope is a string, and on success it
\* is the string form of the result value.
C5_AnswerIsString ==
    outcome.kind = "returned" =>
        /\ env.answer.type = "str"
        /\ env.success => env.answer = StrOf(execution.result)

\* ---------------------------------------------------------------- C6
\* C6: code that runs to completion gives success = true with the final
\* value of the result slot, or the sentinel string when the code never set
\* the slot.
C6_SlotOrSentinel ==
    RanToCompletion =>
        /\ execution.kind = "returned"
        /\ execution.success
        /\ execution.result =
               IF execution.assigned THEN execution.slot ELSE PyStr(<<SENTINEL>>)

\* ---------------------------------------------------------------- C7
NoCodeCase == Extracted /\ NoDelimiterPair(client.text)

\* C7 as stated: a response without a delimiter pair gives success = false,
\* error "no code block found", the fallback answer, the raw response as
\* explanation, no code, and the executor is not invoked.
C7_NoCodeErrorAsStated ==
    NoCodeCase =>
        /\ outcome.kind = "returned"
        /\ env = Envelope(PyStr(<<"I couldn't generate code to answer that question.">>),
                          None, PyStr(client.text), FALSE,
                          PyStr(<<"no code block found">>))
        /\ ~Executor_Invoked

\* C7 amended: the same with error equal to "No code block found in response".
C7_NoCodeEnvelope ==
    NoCodeCase =>
        /\ outcome.kind = "returned"
        /\ env = Envelope(PyStr(<<"I couldn't generate code to answer that question.">>),
                          None, PyStr(client.text), FALSE,
                          PyStr(<<"No code block found in response">>))
        /\ ~Executor_Invoked
        /\ steps = StepsToExtract

\* A prose answer without delimiters has been turned into the envelope.
C7_Witness ==
    /\ NoCodeCase
    /\ Contains(client.text, PROSE)
    /\ ~Contains(client.text, OPEN) /\ ~Contains(client.text, CLOSE)
    /\ outcome.kind = "returned"
\* ---------------------------------------------------------------- C8
\* The part of s after its last </code>, all of s when it has none.
RECURSIVE AfterLastClose(_)
AfterLastClose(s) ==
    IF Contains(s, CLOSE) THEN AfterLastClose(Tail(s)) ELSE s

C10_Idempotent ==
    [][(outcome.kind # "none" /\ before = loaded /\ question' = question)
           => outcome' = outcome]_vars

\* --------------------------------------------------------------- C11
\* C11: summarizing the empty dataset does not raise and gives total
\* revenue 0, total expenses 0, net income 0 and no department.
C11_EmptySummary ==
    (summary.done /\ df = <<>>) =>
        /\ summary.value.raised = NoFault
        /\ summary.value.total_revenue = 0
        /\ summary.value.total_expenses = 0
        /\ summary.value.net_income = 0
        /\ summary.value.departments = <<>>

\* --------------------------------------------------------------- C12
RECURSIVE SumOver(_, _)
SumOver(d, S) ==
    IF S = {} THEN 0
    ELSE LET i == CHOOSE i \in S : TRUE IN d[i].Amount + SumOver(d, S \ {i})

RowsOfType(d, type) == {i \in 1..Len(d) : d[i].Type = type}

\* C12: for every dataset the summary reports the sum of Amount over the
\* Revenue rows, the sum over the Expense rows, their difference and the
\* number of rows; the rows (Revenue,100),(Expense,40),(Expense,10) give 100,
\* 50 and 50.
C12_SummaryTotals ==
    summary.done =>
        /\ summary.value.raised = NoFault
        /\ summary.value.total_revenue = SumOver(df, RowsOfType(df, Revenue))
        /\ summary.value.total_expenses = SumOver(df, RowsOfType(df, Expense))
        /\ summary.value.net_income =
               SumOver(df, RowsOfType(df, Revenue)) - SumOver(df, RowsOfType(df, Expense))
        /\ summary.value.count = Len(df)
        /\ df = ThreeRows =>
               /\ summary.value.total_revenue = 100
               /\ summary.value.total_expenses = 50
               /\ summary.value.net_income = 50

\* --------------------------------------------------------------- C13
\* C13: whenever execute_code returns a failure because the code raised,
\* its error is a non-empty string.
C13_ErrorNonEmpty ==
    (Executor_Invoked /\ execution.kind = "returned" /\ ~execution.success) =>
        /\ execution.error.type = "str"
        /\ execution.error.text # <<>>

\* --------------------------------------------------------------- C15
\* C15: every exec starts from a fresh binding environment: result is the
\* unset placeholder and no name bound by the code of an earlier call can be
\* read by the code of a later call.
C15_FreshNamespace ==
    Executor_Invoked =>
        execution.start = [bound |-> TRUE, result |-> None, names |-> {}]

\* --------------------------------------------------------------- C16
\* C16: code is absent only without a delimiter pair; a response holding a
\* complete pair, be its content empty or blank, has its code executed
\* instead of giving the no-code envelope.
C16_PairMeansCodeFound ==
    Extracted =>
        /\ extraction.code = None => NoDelimiterPair(client.text)
        /\ ~NoDelimiterPair(client.text) =>
               /\ Executor_Invoked
               /\ outcome.kind = "returned" =>
                      env.error # PyStr(<<"No code block found in response">>)

C18_FailureEnvelope ==
    (Executor_Invoked /\ execution.kind = "returned" /\ ~execution.success) =>
        /\ outcome.kind = "returned"
        /\ env.success = FALSE
        /\ env.error = execution.error
        /\ env.answer.type = "str"
        /\ env.answer.text =
               <<"I wrote code but it had an error: ">> \o execution.error.text
        /\ env.code = extraction.code
        /\ env.explanation = extraction.explanation

\* Code that names a missing column, followed by an explanation, failed.
C18_Witness ==
    /\ Executor_Invoked /\ execution.kind = "returned" /\ ~execution.success
    /\ \E i \in DOMAIN extraction.code.text : extraction.code.text[i] = MISSING_COLUMN
    /\ execution.error.text # <<>>
    /\ extraction.explanation.text # <<>>
    /\ outcome.kind = "returned"

\* --------------------------------------------------------------- C14
\* C14: load_data fails with a DataLoadError whenever the file is missing or
\* one of the required columns is absent or unparseable, and never returns a
\* dataset that lacks a required column. (The code has no exception of that
\* name: whatever load_data raises is taken for it.)
C14_LoadFailsOrComplete ==
    load.kind # "none" =>
        /\ (~file.exists \/ file.columns # Required \/ file.unparseable # {}) =>
               load.kind = "raised"
        /\ load.kind = "returned" => Required \subseteq load.columns

\* --------------------------------------------------------------- C19
PasswordCorrect(ss) ==
    "password_correct" \in DOMAIN ss /\ ss["password_correct"] = TRUE

\* C19: main() runs only in a run where password_correct is True;
\* password_correct becomes True only by an entry equal to the configured
\* secret; a wrong entry sets it to False and main() does not run.
C19_Gate ==
    [][\A s \in Sessions :
        /\ page'[s].main => PasswordCorrect(session_state'[s])
        /\ (PasswordCorrect(session_state'[s]) /\ ~PasswordCorrect(session_state[s])) =>
               /\ "password" \in DOMAIN secrets
               /\ event' = EntryEvent(s, secrets["password"])
        /\ ("password" \in DOMAIN secrets /\ event'.kind = "entry" /\ event'.session = s
                /\ event'.value # secrets["password"]) =>
               /\ "password_correct" \in DOMAIN session_state'[s]
               /\ session_state'[s]["password_correct"] = FALSE
               /\ ~page'[s].main
               /\ page'[s].input /\ page'[s].error
    ]_vars

\* One session has just been let in by the secret while another, after a
\* wrong entry, is held at the input.
C19_Witness ==
    \E s, t \in Sessions :
        /\ "password" \in DOMAIN secrets
        /\ event = EntryEvent(s, secrets["password"])
        /\ page[s].main /\ PasswordCorrect(session_state[s])
        /\ "password_correct" \in DOMAIN session_state[t]
        /\ session_state[t]["password_correct"] = FALSE
        /\ page[t].input /\ page[t].error /\ ~page[t].main

\* --------------------------------------------------------------- C20
\* C20: in every session state where password_correct is True the key
\* "password" is absent, and the input is not on the page.
C20_PasswordNotKept ==
    \A s \in Sessions :
        PasswordCorrect(session_state[s]) =>
            /\ "password" \notin DOMAIN session_state[s]
            /\ ~page[s].input

\* A session that was let in runs the script again: the key is still absent.
C20_Witness ==
    \E s \in Sessions :
        /\ PasswordCorrect(session_state[s])
        /\ event = RunEvent(s)
        /\ page[s].main
        /\ "password" \notin DOMAIN session_state[s]

\* --------------------------------------------------------------- C21
History(ss) == IF "chat_history" \in DOMAIN ss THEN ss["chat_history"] ELSE <<>>

\* C21: chat_history is an append-only log: a run of main() with a
\* non-empty question calls ask_financial_question once and appends one
\* entry (question, answer, code, success); no run removes or reorders
\* entries; Previous Questions shows all entries but the newest, newest
\* first, and only when the history has more than one entry.
C21_AppendOnlyLog ==
    [][\A s \in Sessions :
        LET old == History(session_state[s])
            new == History(session_state'[s])
        IN  /\ Len(new) >= Len(old)
            /\ SubSeq(new, 1, Len(old)) = old
            /\ (event'.session = s /\ page'[s].main /\ page'[s].question # "") =>
                   /\ page'[s].asked
                   /\ question' = page'[s].question
                   /\ outcome'.kind = "returned"
                   /\ new = Append(old,
                                   [question |-> page'[s].question,
                                    answer |-> outcome'.envelope.answer,
                                    code |-> outcome'.envelope.code,
                                    success |-> outcome'.envelope.success])
            /\ (event'.session = s /\ page'[s].main /\ page'[s].question = "") =>
                   new = old
            /\ (event'.session = s /\ page'[s].main) =>
                   /\ page'[s].expander <=> Len(new) > 1
                   /\ page'[s].expander =>
                          /\ Len(page'[s].previous) = Len(new) - 1
                          /\ \A i \in 1..(Len(new) - 1) :
                                 page'[s].previous[i] = new[Len(new) - i]
    ]_vars

====
